---- MODULE Spec2Model ----
(***************************************************************************)
(* File-integrity scan pipeline of file_integrity_parallel.py: main loads  *)
(* the baseline snapshot into a shared float64 array, starts one producer  *)
(* process that walks the tree and puts paths on a multiprocessing queue,  *)
(* starts num_processes workers that take paths, hash the file, compare it *)
(* with the baseline array and append alerts to a shared list, polls the   *)
(* progress counter, joins every process and prints the alerts.            *)
(*                                                                         *)
(* One step of the model is one inter-process operation of the code (a     *)
(* queue call, an event call, a counter increment under its lock, an       *)
(* append to the manager list) together with the process-local code that   *)
(* follows it.  The two operands of the worker's loop condition are two    *)
(* such operations and two steps.  A put is visible to empty(), qsize()    *)
(* and get() at once.  The array lock is taken and released by a worker    *)
(* around reads only, within one step.  The "STOP" sentinel of line 79 is  *)
(* never put by anyone and is left out.  num_processes is at least one.    *)
(*                                                                         *)
(* The tree (what os.walk yields to the producer, and what reading each    *)
(* file does), the snapshot and main's startup count of the tree are the   *)
(* inputs of a run and are fixed in the initial state; the count may       *)
(* differ from the tree the producer walks later.                          *)
(***************************************************************************)
EXTENDS Naturals, Integers, Sequences, FiniteSets, TLC

(* ------------------------------ bounds --------------------------------- *)
MaxFiles == 2          \* most files in the tree, and largest num_files
MaxProcs == 2          \* largest num_processes
MaxBuffer == 2         \* largest buffer_size
MaxBaseline == 2       \* most records in the baseline snapshot
MantissaBits == 2      \* significand width of the array's float type, scaled
                       \* down from the 53 bits of np.float64

(* --------------------------- value domains ----------------------------- *)
\* Fingerprint 0 is the content of a row never written.  Fingerprints 4 and
\* 5 differ as integers and are equal as floats of
\* MantissaBits bits, as 2^53 and 2^53+1 are for np.float64.
Fingerprints == {0, 4, 5}
Sizes == {1, 2}
Timestamps == {1, 2}

RECURSIVE Pow2(_)
Pow2(k) == IF k = 0 THEN 1 ELSE 2 * Pow2(k - 1)

RECURSIVE BitLength(_)
BitLength(n) == IF n = 0 THEN 0 ELSE 1 + BitLength(n \div 2)

\* Conversion of a non-negative number to the array's dtype: the nearest
\* value with MantissaBits significant bits, ties to even.
F64(n) ==
    IF BitLength(n) <= MantissaBits THEN n
    ELSE LET u == Pow2(BitLength(n) - MantissaBits)
             q == n \div u
             r == n % u
         IN  IF 2 * r > u \/ (2 * r = u /\ q % 2 = 1)
             THEN (q + 1) * u
             ELSE q * u

\* One record of the snapshot file / one result of calculate_file_metadata.
Metadata == [hash : Fingerprints, size : Sizes, timestamp : Timestamps]

NoMetadata == [hash |-> 0, size |-> 0, timestamp |-> 0]

SeqsUpTo(S, n) == UNION {[1..k -> S] : k \in 0..n}

Procs == 1..MaxProcs

VARIABLES
    tree,              \* the files os.walk yields to the producer, in order
    baseline_metadata, \* the records json.load returns from the snapshot
    json_ok,           \* whether the snapshot file parses
    num_files,         \* main's count of the tree taken before the scan
    num_processes,
    buffer_size,
    np_array,          \* shared_array: num_files rows of three floats
    array_lock,        \* shared_array.get_lock(): "free" or its holder
    main_pc, main_i,   \* main's position and its loop index over processes
    prod_pc, prod_i,   \* producer's position and index of its current file
    file_queue,        \* paths (indices into tree) put and not yet taken
    stop_event,
    progress_counter,  \* the value of the mp.Value
    counter_lock,      \* progress_counter.get_lock(): 0 or the worker holding it
    counter_read,      \* worker -> the value it read for its += 1
    alert_list,        \* manager list of <<kind, path>>
    wpc,               \* worker -> position
    file_path,         \* worker -> path it holds (0: none)
    current_metadata,  \* worker -> metadata it computed
    taken,             \* path -> number of times it was dequeued
    finished,          \* path -> number of counter increments made for it
    printed            \* the alerts main has printed

vars == <<tree, baseline_metadata, json_ok, num_files, num_processes,
          buffer_size, np_array, array_lock, main_pc, main_i, prod_pc,
          prod_i, file_queue, stop_event, progress_counter, counter_lock,
          counter_read, alert_list, wpc, file_path, current_metadata, taken,
          finished, printed>>

env == <<tree, baseline_metadata, json_ok, num_files, num_processes,
         buffer_size>>

\* The mp.Value, its lock and the reads made of it under the lock.
progress == <<progress_counter, counter_lock, counter_read>>

(* ------------------------- baseline loading ---------------------------- *)
\* A row of the shared array holding one snapshot record.
Row(entry) == [hash |-> F64(entry.hash), size |-> F64(entry.size),
               timestamp |-> F64(entry.timestamp)]

\* The array as created over memory that is not zeroed: rows hold what a
\* previous use left there.
NewSharedArrayUncleared(n) ==
    [i \in 1..n |-> [hash |-> 4, size |-> 1, timestamp |-> 1]]

\* MemorySharedNumpyArray(dtype=float64, shape=(num_files, 3)): zeroed rows.
NewSharedArray(n) == [i \in 1..n |-> NoMetadata]

\* The enumerate loop of load_baseline_metadata writes row i for entry i and
\* raises IndexError at the first entry that has no row.
LoadOverflows(entries, n) == Len(entries) > n

LoadedArray(entries, n) ==
    [i \in 1..n |-> IF i <= Len(entries) THEN Row(entries[i])
                                       ELSE NewSharedArray(n)[i]]

(* --------------------------- comparison -------------------------------- *)
\* current_metadata["hash"] not in baseline_hashes / baseline_hashes == hash:
\* the integer is compared with the float64 column as a float64.
HashMatches(arr, i, h) == arr[i].hash = F64(h)

InBaseline(arr, h) == \E i \in DOMAIN arr : HashMatches(arr, i, h)

\* np.where(baseline_hashes == hash)[0][0]: the first matching row.
FirstIndex(arr, h) ==
    CHOOSE i \in DOMAIN arr :
        /\ HashMatches(arr, i, h)
        /\ \A j \in DOMAIN arr : HashMatches(arr, j, h) => i <= j

SizeDiffers(arr, idx, m) == F64(m.size) # arr[idx].size

\* The timestamp comparison as the elif of the size comparison.
TimestampDiffersElif(arr, idx, m) ==
    /\ F64(m.size) = arr[idx].size
    /\ F64(m.timestamp) # arr[idx].timestamp

TimestampDiffers(arr, idx, m) == F64(m.timestamp) # arr[idx].timestamp

\* The alerts lines 98-105 append for a file with metadata m, in order.
CompareAlerts(arr, p, m) ==
    IF ~InBaseline(arr, m.hash)
    THEN << <<"New", p>> >>
    ELSE LET idx == FirstIndex(arr, m.hash)
         IN  (IF SizeDiffers(arr, idx, m) THEN << <<"Size", p>> >> ELSE << >>)
             \o (IF TimestampDiffers(arr, idx, m)
                 THEN << <<"Timestamp", p>> >> ELSE << >>)

(* ----------------------------- queue ----------------------------------- *)
\* The producer's wait with the comparison off by one.
QueueFullStrict(q, b) == Len(q) > b

\* while queue.qsize() >= buffer_size: pass
QueueFull(q, b) == Len(q) >= b

\* while not (queue.empty() and stop_event.is_set()), the first operand
QueueEmpty(q) == Len(q) = 0

(* ------------------------------ Init ----------------------------------- *)
Max(a, b) == IF a >= b THEN a ELSE b

\* What reading a file of the tree does when a worker gets to it:
\* "ok" (metadata returned), "vanished" (FileNotFoundError, None returned),
\* "unreadable" (any other exception, e.g. PermissionError, propagates).
ReadableFile(m) == [state |-> "ok", meta |-> m]

VanishedFile == [state |-> "vanished", meta |-> NoMetadata]

UnreadableFile == [state |-> "unreadable", meta |-> NoMetadata]

Files == {ReadableFile(m) : m \in Metadata} \cup {VanishedFile, UnreadableFile}

\* The files of the runs that vary the processes: one readable file and one
\* that vanishes before it is read.
PlainMetadata == [hash |-> 4, size |-> 1, timestamp |-> 1]

PlainFiles == {ReadableFile(PlainMetadata), VanishedFile}

\* The files and the snapshot records of the runs that vary the data.
ScanFiles ==
    {ReadableFile(m) : m \in {PlainMetadata,
                              [hash |-> 4, size |-> 1, timestamp |-> 2],
                              [hash |-> 4, size |-> 2, timestamp |-> 2],
                              [hash |-> 5, size |-> 1, timestamp |-> 1],
                              [hash |-> 0, size |-> 1, timestamp |-> 1]}}
        \cup {VanishedFile, UnreadableFile}

ScanRecords == {PlainMetadata, [hash |-> 4, size |-> 2, timestamp |-> 2]}

InitRun ==
    /\ np_array = NewSharedArray(num_files)
    /\ array_lock = "free"
    /\ main_pc = "load"
    /\ main_i = 0
    /\ prod_pc = "idle"
    /\ prod_i = 1
    /\ file_queue = << >>
    /\ stop_event = FALSE
    /\ progress_counter = 0
    /\ counter_lock = 0
    /\ counter_read = [w \in Procs |-> 0]
    /\ alert_list = << >>
    /\ wpc = [w \in Procs |-> "idle"]
    /\ file_path = [w \in Procs |-> 0]
    /\ current_metadata = [w \in Procs |-> NoMetadata]
    /\ taken = [p \in 1..Len(tree) |-> 0]
    /\ finished = [p \in 1..Len(tree) |-> 0]
    /\ printed = << >>

\* Runs over every number of workers, queue capacity, tree length and
\* startup count, with an empty snapshot.
InitPipeline ==
    /\ tree \in SeqsUpTo(PlainFiles, MaxFiles)
    /\ json_ok = TRUE
    /\ baseline_metadata = << >>
    /\ num_files \in 0..MaxFiles
    /\ num_processes \in 1..MaxProcs
    /\ buffer_size \in 1..MaxBuffer

\* Runs of one worker over every tree and every snapshot, parsable or not;
\* the startup count is that of the tree, or of the snapshot if that is
\* longer, or one less than the snapshot holds.
InitScan ==
    /\ tree \in SeqsUpTo(ScanFiles, MaxFiles)
    /\ json_ok \in BOOLEAN
    /\ baseline_metadata \in IF json_ok THEN SeqsUpTo(ScanRecords, MaxBaseline)
                                        ELSE {<< >>}
    /\ num_files \in {Max(Len(tree), Len(baseline_metadata)),
                      Max(Len(baseline_metadata), 1) - 1}
    /\ num_processes = 1
    /\ buffer_size = 1

Init ==
    /\ InitPipeline \/ InitScan
    /\ InitRun

(* ------------------------------ main ----------------------------------- *)
\* load_baseline_metadata with the IndexError of the loop swallowed.
MainLoadContinues ==
    /\ main_pc = "load"
    /\ IF ~json_ok
       THEN /\ main_pc' = "failed"
            /\ UNCHANGED <<np_array, array_lock>>
       ELSE /\ np_array' = LoadedArray(baseline_metadata, num_files)
            /\ main_pc' = "start_producer"
            /\ array_lock' = IF LoadOverflows(baseline_metadata, num_files)
                             THEN "main" ELSE "free"
    /\ UNCHANGED <<env, main_i, prod_pc, prod_i, file_queue, stop_event,
                   progress, alert_list, wpc, file_path,
                   current_metadata, taken, finished, printed>>

\* load_baseline_metadata: json.load raises on an unparsable snapshot before
\* the lock is taken; an IndexError in the loop leaves the lock acquired.
\* Either exception ends main.
MainLoad ==
    /\ main_pc = "load"
    /\ IF ~json_ok
       THEN /\ main_pc' = "failed"
            /\ UNCHANGED <<np_array, array_lock>>
       ELSE /\ np_array' = LoadedArray(baseline_metadata, num_files)
            /\ IF LoadOverflows(baseline_metadata, num_files)
               THEN main_pc' = "failed" /\ array_lock' = "main"
               ELSE main_pc' = "start_producer" /\ array_lock' = "free"
    /\ UNCHANGED <<env, main_i, prod_pc, prod_i, file_queue, stop_event,
                   progress, alert_list, wpc, file_path,
                   current_metadata, taken, finished, printed>>

MainStartProducer ==
    /\ main_pc = "start_producer"
    /\ prod_pc' = "walk"
    /\ main_pc' = "start_workers"
    /\ main_i' = 1
    /\ UNCHANGED <<env, np_array, array_lock, prod_i, file_queue, stop_event,
                   progress, alert_list, wpc, file_path,
                   current_metadata, taken, finished, printed>>

\* for _ in range(num_processes): p.start()
MainStartWorker ==
    /\ main_pc = "start_workers"
    /\ wpc' = [wpc EXCEPT ![main_i] = "loop"]
    /\ IF main_i < num_processes
       THEN main_i' = main_i + 1 /\ main_pc' = main_pc
       ELSE main_i' = 0 /\ main_pc' = "progress"
    /\ UNCHANGED <<env, np_array, array_lock, prod_pc, prod_i, file_queue,
                   stop_event, progress, alert_list, file_path,
                   current_metadata, taken, finished, printed>>

\* while progress_counter.value < num_files
StillProcessing(counter, n) == counter < n

\* One evaluation of the progress loop's condition: another refresh of the
\* bar, or on to the joins.
MainProgress ==
    /\ main_pc = "progress"
    /\ IF StillProcessing(progress_counter, num_files)
       THEN UNCHANGED <<main_pc, main_i>>
       ELSE main_pc' = "join" /\ main_i' = 1
    /\ UNCHANGED <<env, np_array, array_lock, prod_pc, prod_i, file_queue,
                   stop_event, progress, alert_list, wpc, file_path,
                   current_metadata, taken, finished, printed>>

\* The loop over the processes without the wait of p.join().
MainJoinNoWait ==
    /\ main_pc = "join"
    /\ IF main_i < num_processes
       THEN main_i' = main_i + 1 /\ main_pc' = main_pc
       ELSE main_i' = 0 /\ main_pc' = "join_producer"
    /\ UNCHANGED <<env, np_array, array_lock, prod_pc, prod_i, file_queue,
                   stop_event, progress, alert_list, wpc, file_path,
                   current_metadata, taken, finished, printed>>

\* for p in processes: p.join()
MainJoin ==
    /\ main_pc = "join"
    /\ wpc[main_i] = "exited"
    /\ IF main_i < num_processes
       THEN main_i' = main_i + 1 /\ main_pc' = main_pc
       ELSE main_i' = 0 /\ main_pc' = "join_producer"
    /\ UNCHANGED <<env, np_array, array_lock, prod_pc, prod_i, file_queue,
                   stop_event, progress, alert_list, wpc, file_path,
                   current_metadata, taken, finished, printed>>

MainJoinProducer ==
    /\ main_pc = "join_producer"
    /\ prod_pc = "done"
    /\ main_pc' = "print"
    /\ UNCHANGED <<env, np_array, array_lock, main_i, prod_pc, prod_i,
                   file_queue, stop_event, progress, alert_list, wpc,
                   file_path, current_metadata, taken, finished, printed>>

\* for alert in alert_list: print(alert)
MainPrint ==
    /\ main_pc = "print"
    /\ printed' = alert_list
    /\ main_pc' = "done"
    /\ UNCHANGED <<env, np_array, array_lock, main_i, prod_pc, prod_i,
                   file_queue, stop_event, progress, alert_list, wpc,
                   file_path, current_metadata, taken, finished>>

(* ---------------------------- producer --------------------------------- *)
\* queue.put(file_path): the queue is created without maxsize, put never
\* blocks.
ProducerPut ==
    /\ prod_pc = "walk"
    /\ prod_i <= Len(tree)
    /\ file_queue' = Append(file_queue, prod_i)
    /\ prod_pc' = "wait"
    /\ UNCHANGED <<env, np_array, array_lock, main_pc, main_i, prod_i,
                   stop_event, progress, alert_list, wpc, file_path,
                   current_metadata, taken, finished, printed>>

\* One evaluation of queue.qsize() >= buffer_size: spin again, or go on
\* walking.
ProducerWait ==
    /\ prod_pc = "wait"
    /\ IF QueueFull(file_queue, buffer_size)
       THEN UNCHANGED <<prod_pc, prod_i>>
       ELSE prod_pc' = "walk" /\ prod_i' = prod_i + 1
    /\ UNCHANGED <<env, np_array, array_lock, main_pc, main_i, file_queue,
                   stop_event, progress, alert_list, wpc, file_path,
                   current_metadata, taken, finished, printed>>

\* stop_event.set() inside the walk loop: set at every file.
ProducerSetInLoop ==
    /\ prod_pc = "walk"
    /\ stop_event' = TRUE
    /\ prod_pc' = IF prod_i > Len(tree) THEN "done" ELSE "walk"
    /\ UNCHANGED <<env, np_array, array_lock, main_pc, main_i, prod_i,
                   file_queue, progress, alert_list, wpc, file_path,
                   current_metadata, taken, finished, printed>>

\* stop_event.set() after the walk
ProducerSet ==
    /\ prod_pc = "walk"
    /\ prod_i > Len(tree)
    /\ stop_event' = TRUE
    /\ prod_pc' = "done"
    /\ UNCHANGED <<env, np_array, array_lock, main_pc, main_i, prod_i,
                   file_queue, progress, alert_list, wpc, file_path,
                   current_metadata, taken, finished, printed>>

(* ----------------------------- worker ---------------------------------- *)
\* queue.empty(), the first operand of the loop condition; `and` evaluates
\* stop_event.is_set() only when it is true.
WorkerEmpty(w) ==
    /\ wpc[w] = "loop"
    /\ wpc' = [wpc EXCEPT ![w] = IF QueueEmpty(file_queue) THEN "is_set"
                                                           ELSE "get"]
    /\ UNCHANGED <<env, np_array, array_lock, main_pc, main_i, prod_pc,
                   prod_i, file_queue, stop_event, progress,
                   alert_list, file_path, current_metadata, taken, finished,
                   printed>>

\* stop_event.is_set(), the second operand
WorkerIsSet(w) ==
    /\ wpc[w] = "is_set"
    /\ wpc' = [wpc EXCEPT ![w] = IF stop_event THEN "exited" ELSE "get"]
    /\ UNCHANGED <<env, np_array, array_lock, main_pc, main_i, prod_pc,
                   prod_i, file_queue, stop_event, progress,
                   alert_list, file_path, current_metadata, taken, finished,
                   printed>>

\* file_path = queue.get() (blocks while the queue is empty), then
\* calculate_file_metadata(file_path): None for a file that is gone, any
\* other exception propagates to the handler of line 109.
WorkerGet(w) ==
    /\ wpc[w] = "get"
    /\ file_queue # << >>
    /\ LET p == Head(file_queue)
       IN  /\ file_queue' = Tail(file_queue)
           /\ file_path' = [file_path EXCEPT ![w] = p]
           /\ taken' = [taken EXCEPT ![p] = @ + 1]
           /\ current_metadata' = [current_metadata EXCEPT ![w] = tree[p].meta]
           /\ wpc' = [wpc EXCEPT ![w] =
                        CASE tree[p].state = "ok" -> "compare"
                          [] tree[p].state = "vanished" -> "increment"
                          [] OTHER -> "except"]
    /\ UNCHANGED <<env, np_array, array_lock, main_pc, main_i, prod_pc,
                   prod_i, stop_event, progress, alert_list, finished,
                   printed>>

\* The comparison of lines 91-105 followed by a write of the file's current
\* metadata into the row it was compared with.
WorkerCompareWritesBack(w) ==
    /\ wpc[w] = "compare"
    /\ array_lock = "free"
    /\ LET alerts == CompareAlerts(np_array, file_path[w], current_metadata[w])
       IN  /\ alert_list' = IF alerts = << >> THEN alert_list
                            ELSE Append(alert_list, Head(alerts))
           /\ wpc' = [wpc EXCEPT ![w] = IF Len(alerts) > 1 THEN "timestamp"
                                                           ELSE "increment"]
    /\ np_array' =
           IF InBaseline(np_array, current_metadata[w].hash)
           THEN [np_array EXCEPT ![FirstIndex(np_array, current_metadata[w].hash)]
                                     = Row(current_metadata[w])]
           ELSE np_array
    /\ UNCHANGED <<env, array_lock, main_pc, main_i, prod_pc,
                   prod_i, file_queue, stop_event, progress,
                   file_path, current_metadata, taken, finished, printed>>

\* Lines 91-105 up to the first append: the column views are taken with the
\* array lock held and released, then the hash is looked up.
WorkerCompare(w) ==
    /\ wpc[w] = "compare"
    /\ array_lock = "free"
    /\ LET alerts == CompareAlerts(np_array, file_path[w], current_metadata[w])
       IN  /\ alert_list' = IF alerts = << >> THEN alert_list
                            ELSE Append(alert_list, Head(alerts))
           /\ wpc' = [wpc EXCEPT ![w] = IF Len(alerts) > 1 THEN "timestamp"
                                                           ELSE "increment"]
    /\ UNCHANGED <<env, np_array, array_lock, main_pc, main_i, prod_pc,
                   prod_i, file_queue, stop_event, progress,
                   file_path, current_metadata, taken, finished, printed>>

\* Line 105 passed over: the worker goes on to its increment with the
\* second alert of the file not appended.
WorkerTimestampSkipped(w) ==
    /\ wpc[w] = "timestamp"
    /\ wpc' = [wpc EXCEPT ![w] = "increment"]
    /\ UNCHANGED <<env, np_array, array_lock, main_pc, main_i, prod_pc,
                   prod_i, file_queue, stop_event, progress,
                   alert_list, file_path, current_metadata, taken, finished,
                   printed>>

\* Line 105 after line 103 has appended: the second alert of the file.
WorkerTimestamp(w) ==
    /\ wpc[w] = "timestamp"
    /\ alert_list' = Append(alert_list, <<"Timestamp", file_path[w]>>)
    /\ wpc' = [wpc EXCEPT ![w] = "increment"]
    /\ UNCHANGED <<env, np_array, array_lock, main_pc, main_i, prod_pc,
                   prod_i, file_queue, stop_event, progress,
                   file_path, current_metadata, taken, finished, printed>>

\* The handler without its append.
WorkerExceptSilent(w) ==
    /\ wpc[w] = "except"
    /\ wpc' = [wpc EXCEPT ![w] = "increment"]
    /\ UNCHANGED <<env, np_array, array_lock, main_pc, main_i, prod_pc,
                   prod_i, file_queue, stop_event, progress,
                   alert_list, file_path, current_metadata, taken, finished,
                   printed>>

\* Line 110: the handler's alert.
WorkerExcept(w) ==
    /\ wpc[w] = "except"
    /\ alert_list' = Append(alert_list, <<"Error", file_path[w]>>)
    /\ wpc' = [wpc EXCEPT ![w] = "increment"]
    /\ UNCHANGED <<env, np_array, array_lock, main_pc, main_i, prod_pc,
                   prod_i, file_queue, stop_event, progress,
                   file_path, current_metadata, taken, finished, printed>>

\* with progress_counter.get_lock(), at lines 85, 107 and 111: the lock is
\* free when nobody holds it.
CounterLockIgnored(holder) == TRUE

CounterLockFree(holder) == holder = 0

\* Entering the with block and the read half of progress_counter.value += 1.
WorkerGetLock(w) ==
    /\ wpc[w] = "increment"
    /\ CounterLockFree(counter_lock)
    /\ counter_lock' = w
    /\ counter_read' = [counter_read EXCEPT ![w] = progress_counter]
    /\ wpc' = [wpc EXCEPT ![w] = "add"]
    /\ UNCHANGED <<env, np_array, array_lock, main_pc, main_i, prod_pc,
                   prod_i, file_queue, stop_event, progress_counter,
                   alert_list, file_path, current_metadata, taken, finished,
                   printed>>

\* The write half of progress_counter.value += 1 at lines 86, 108 and 112
\* and the release of the lock; then back to the loop condition.  The
\* locals are dead from here on and are cleared.
WorkerIncrement(w) ==
    /\ wpc[w] = "add"
    /\ progress_counter' = counter_read[w] + 1
    /\ counter_lock' = 0
    /\ counter_read' = [counter_read EXCEPT ![w] = 0]
    /\ finished' = [finished EXCEPT ![file_path[w]] = @ + 1]
    /\ file_path' = [file_path EXCEPT ![w] = 0]
    /\ current_metadata' = [current_metadata EXCEPT ![w] = NoMetadata]
    /\ wpc' = [wpc EXCEPT ![w] = "loop"]
    /\ UNCHANGED <<env, np_array, array_lock, main_pc, main_i, prod_pc,
                   prod_i, file_queue, stop_event, alert_list, taken, printed>>

TypeOK ==
    /\ tree \in Seq(Files)
    /\ json_ok \in BOOLEAN
    /\ baseline_metadata \in Seq(Metadata)
    /\ num_files \in Nat
    /\ num_processes \in Procs
    /\ buffer_size \in Nat \ {0}
    /\ np_array \in [1..num_files -> [hash : Nat, size : Nat, timestamp : Nat]]
    /\ array_lock \in {"free", "main"}
    /\ main_pc \in {"load", "failed", "start_producer", "start_workers",
                    "progress", "join", "join_producer", "print", "done"}
    /\ main_i \in 0..num_processes
    /\ prod_pc \in {"idle", "walk", "wait", "done"}
    /\ prod_i \in 1..(Len(tree) + 1)
    /\ file_queue \in Seq(DOMAIN tree)
    /\ stop_event \in BOOLEAN
    /\ progress_counter \in Nat
    /\ counter_lock \in {0} \cup Procs
    /\ counter_read \in [Procs -> Nat]
    /\ alert_list \in Seq({"New", "Size", "Timestamp", "Error"} \X DOMAIN tree)
    /\ wpc \in [Procs -> {"idle", "loop", "is_set", "get", "compare",
                          "timestamp", "except", "increment", "add",
                          "exited"}]
    /\ file_path \in [Procs -> 0..Len(tree)]
    /\ current_metadata \in [Procs -> Metadata \cup {NoMetadata}]
    /\ taken \in [DOMAIN tree -> Nat]
    /\ finished \in [DOMAIN tree -> Nat]
    /\ printed \in Seq({"New", "Size", "Timestamp", "Error"} \X DOMAIN tree)

Main ==
    \/ MainLoad
    \/ MainStartProducer
    \/ MainStartWorker
    \/ MainProgress
    \/ MainJoin
    \/ MainJoinProducer
    \/ MainPrint

Producer ==
    \/ ProducerPut
    \/ ProducerWait
    \/ ProducerSet

Worker(w) ==
    \/ WorkerEmpty(w)
    \/ WorkerIsSet(w)
    \/ WorkerGet(w)
    \/ WorkerCompare(w)
    \/ WorkerTimestamp(w)
    \/ WorkerExcept(w)
    \/ WorkerGetLock(w)
    \/ WorkerIncrement(w)

Next ==
    \/ Main
    \/ Producer
    \/ \E w \in Procs : Worker(w)

Spec == Init /\ [][Next]_vars

\* The operating system schedules every process that can take a step.
FairSpec ==
    /\ Spec
    /\ WF_vars(Main)
    /\ WF_vars(Producer)
    /\ \A w \in Procs : WF_vars(Worker(w))

(* ---------------------------- properties ------------------------------- *)
Workers == 1..num_processes

AllWorkersExited == \A w \in Workers : wpc[w] = "exited"

\* The paths the producer has put on the queue so far.
Enqueued == 1..(IF prod_pc = "wait" THEN prod_i ELSE prod_i - 1)

\* The alerts in the sink that name path p, in order of emission.
AlertsFor(p) == SelectSeq(alert_list, LAMBDA a : a[2] = p)

RunComplete == main_pc = "done"

\* The tree the producer walks is the tree main counted at startup.
TreeAsCounted == num_files = Len(tree)

\* C1: no path is taken by two workers, and once all workers have exited
\* every path the producer has put on the queue has been taken by one
\* (stated for the runs whose tree is as counted at startup).
C1_EveryPathTakenOnce ==
    TreeAsCounted =>
        /\ \A p \in DOMAIN taken : taken[p] <= 1
        /\ AllWorkersExited => \A p \in Enqueued : taken[p] = 1

\* C2: once the completion signal is set and the queue is empty, every
\* worker eventually exits (stated for the runs whose tree is as counted).
C2_WorkersExit ==
    (TreeAsCounted /\ stop_event /\ file_queue = << >>) ~> AllWorkersExited

\* C3: a run whose baseline has loaded eventually completes (stated for the
\* runs whose tree is as counted).
C3_RunCompletes ==
    (TreeAsCounted /\ main_pc = "start_producer") ~> RunComplete

\* C4: at completion the progress counter equals the number of paths the
\* producer discovered and enqueued.
C4_CounterEqualsDiscovered == RunComplete => progress_counter = Len(tree)

\* C5: the queue never holds more than buffer_size unclaimed paths.
C5_QueueBounded == Len(file_queue) <= buffer_size

\* The producer waits on a queue filled to a capacity above one.
C5_QueueAtCapacity ==
    /\ prod_pc = "wait"
    /\ buffer_size > 1
    /\ Len(file_queue) = buffer_size

Range(seq) == {seq[i] : i \in DOMAIN seq}

\* The paths whose processing has finished.
Processed == {p \in DOMAIN tree : finished[p] >= 1}

\* Every file of the tree is readable and has the metadata of its own
\* record, the record of the same position in the snapshot.
TreeMatchesBaseline ==
    /\ json_ok
    /\ Len(tree) = Len(baseline_metadata)
    /\ \A p \in DOMAIN tree :
        tree[p].state = "ok" /\ tree[p].meta = baseline_metadata[p]

\* C6: a run over a tree that matches the baseline record for record prints
\* no alert.
C6_MatchingTreeNoAlerts ==
    (RunComplete /\ TreeMatchesBaseline) => printed = << >>

\* No record of the snapshot has fingerprint h.
FingerprintAbsent(h) ==
    \A i \in DOMAIN baseline_metadata : baseline_metadata[i].hash # h

\* C7: a processed file whose fingerprint no baseline record has gets
\* exactly one alert, a NewFile alert.
C7_NewFileOneAlert ==
    \A p \in Processed :
        (tree[p].state = "ok" /\ FingerprintAbsent(tree[p].meta.hash))
            => AlertsFor(p) = << <<"New", p>> >>

\* The number of alerts of one kind the sink holds for path p.
AlertCount(kind, p) ==
    Cardinality({i \in DOMAIN alert_list : alert_list[i] = <<kind, p>>})

\* C8: for a processed file whose fingerprint the lookup finds in the
\* baseline array, with idx the row found: a SizeChanged alert is in the
\* sink iff its size differs from the row's, a TimestampChanged alert iff
\* its timestamp differs, each at most once, and no other alert names it.
C8_IndependentComparison ==
    \A p \in Processed :
        (tree[p].state = "ok" /\ InBaseline(np_array, tree[p].meta.hash)) =>
            LET row == np_array[FirstIndex(np_array, tree[p].meta.hash)]
            IN  /\ AlertCount("Size", p) =
                     IF tree[p].meta.size # row.size THEN 1 ELSE 0
                /\ AlertCount("Timestamp", p) =
                     IF tree[p].meta.timestamp # row.timestamp THEN 1 ELSE 0
                /\ AlertCount("New", p) = 0
                /\ AlertCount("Error", p) = 0

\* A processed file that differs from the row found in size and timestamp.
C8_BothDiffer ==
    \E p \in Processed :
        /\ tree[p].state = "ok"
        /\ InBaseline(np_array, tree[p].meta.hash)
        /\ LET row == np_array[FirstIndex(np_array, tree[p].meta.hash)]
           IN  /\ tree[p].meta.size # row.size
               /\ tree[p].meta.timestamp # row.timestamp
               /\ row.hash # 0

\* C9: a processed path whose hashing failed has exactly one
\* ProcessingError alert and one increment of the progress counter.
C9_FailureOneErrorAlert ==
    \A p \in Processed :
        tree[p].state # "ok" =>
            AlertsFor(p) = << <<"Error", p>> >> /\ finished[p] = 1

\* The alerts a scan of the tree against the loaded baseline yields, path by
\* path: those of the comparison for a readable file, none for a vanished
\* one, the handler's for an unreadable one.
ExpectedAlerts ==
    UNION {CASE tree[p].state = "ok" ->
                    Range(CompareAlerts(LoadedArray(baseline_metadata, num_files),
                                        p, tree[p].meta))
             [] tree[p].state = "vanished" -> {}
             [] OTHER -> {<<"Error", p>>}
           : p \in DOMAIN tree}

\* C10: at the end of a completed run over the tree counted at startup the
\* set of alerts is a function of the tree and the baseline alone, whatever
\* the number of workers and their interleaving.
C10_AlertSetDetermined ==
    (RunComplete /\ TreeAsCounted) => Range(printed) = ExpectedAlerts

\* A run of several workers has completed and printed several alerts.
C10_ManyWorkersDone ==
    /\ RunComplete
    /\ TreeAsCounted
    /\ num_processes > 1
    /\ Len(printed) > 1

(* ------------------------- loading and startup ------------------------- *)
LoadSucceeds == json_ok /\ ~LoadOverflows(baseline_metadata, num_files)

NothingStarted ==
    /\ prod_pc = "idle"
    /\ \A w \in Procs : wpc[w] = "idle"
    /\ file_queue = << >>
    /\ alert_list = << >>
    /\ \A p \in DOMAIN tree : taken[p] = 0
    /\ progress_counter = 0

\* C11: the run fails only in loading and only when the load fails; in the
\* failed run no producer and no worker is ever started, nothing is put on
\* the queue and no alert is appended; the producer and the workers start
\* only after a load that succeeded and that has written the whole baseline.
C11_FailedLoadStartsNothing ==
    /\ [](main_pc = "failed" => ~LoadSucceeds /\ NothingStarted)
    /\ [](~NothingStarted =>
              /\ LoadSucceeds
              /\ main_pc \notin {"load", "failed"}
              /\ np_array = LoadedArray(baseline_metadata, num_files))
    /\ [][main_pc' = "failed" => main_pc \in {"load", "failed"}]_vars

\* The load has failed on a snapshot longer than the array, with files in
\* the tree waiting to be scanned.
C11_LoadFailed ==
    /\ main_pc = "failed"
    /\ json_ok
    /\ Len(tree) > 0

(* --------------------------- progress counter -------------------------- *)
RECURSIVE Sum(_, _)
Sum(f, S) == IF S = {} THEN 0
             ELSE LET x == CHOOSE y \in S : TRUE IN f[x] + Sum(f, S \ {x})

\* The workers that hold a dequeued path whose increment is still to come.
InFlight ==
    {w \in Procs : wpc[w] \in {"compare", "timestamp", "except",
                               "increment", "add"}}

\* C12: in every state the progress counter is the number of dequeues whose
\* processing has finished, that is all dequeues but those of the workers
\* still at work on their path; it equals the number of increments made;
\* and a step changes it only by adding one, when a worker ends its
\* increment.
C12_CounterCountsFinished ==
    /\ [](progress_counter = Sum(taken, DOMAIN tree) - Cardinality(InFlight))
    /\ [](progress_counter = Sum(finished, DOMAIN tree))
    /\ [][\/ progress_counter' = progress_counter
          \/ /\ progress_counter' = progress_counter + 1
             /\ \E w \in Procs : wpc[w] = "add" /\ wpc'[w] = "loop"]_vars

\* Two workers have between them counted a file that was compared and one
\* that had vanished.
C12_BothPathsCounted ==
    /\ progress_counter = 2
    /\ num_processes > 1
    /\ \E p \in DOMAIN tree : tree[p].state = "ok"
    /\ \E p \in DOMAIN tree : tree[p].state = "vanished"

\* The alerts the worker's code appends for path p.
PathAlerts(p) ==
    CASE tree[p].state = "ok" ->
             Range(CompareAlerts(LoadedArray(baseline_metadata, num_files),
                                 p, tree[p].meta))
      [] tree[p].state = "vanished" -> {}
      [] OTHER -> {<<"Error", p>>}

\* Path p was dequeued, no worker holds it any more, and the sink has all
\* its alerts.
FullyProcessed(p) ==
    /\ taken[p] >= 1
    /\ \A w \in Procs : file_path[w] # p
    /\ Range(AlertsFor(p)) = PathAlerts(p)

\* C13: when the counter reads k the sink holds all the alerts of at least k
\* fully processed paths; a path that was counted has all its alerts in the
\* sink, and an alert that enters the sink is for a path not yet counted.
C13_AlertsBeforeCounter ==
    /\ [](LET done == {p \in DOMAIN tree : FullyProcessed(p)}
          IN  /\ progress_counter <= Cardinality(done)
              /\ \A p \in DOMAIN tree : finished[p] >= 1 => p \in done)
    /\ [][alert_list' # alert_list =>
              finished[alert_list'[Len(alert_list')][2]] = 0]_vars

\* A file that gave two alerts has been counted while another path is
\* still to be counted.
C13_CountedWithTwoAlerts ==
    \E p \in DOMAIN tree :
        /\ finished[p] = 1
        /\ Len(AlertsFor(p)) = 2
        /\ progress_counter < Len(tree)

(* ------------------------------ alert sink ----------------------------- *)
\* The number of alerts the code appends for the paths counted so far.
AlertsDue ==
    Sum([p \in DOMAIN tree |-> IF finished[p] >= 1
                               THEN Cardinality(PathAlerts(p)) ELSE 0],
        DOMAIN tree)

\* C14: main reads the sink only when every worker has exited and was
\* joined; what it prints is the whole sink, nothing is appended from the
\* moment the reading can start; every step that changes the sink appends
\* one alert to it, and with the workers gone the sink has one entry for
\* each alert due.
C14_DrainAfterJoin ==
    /\ [](main_pc \in {"print", "done"} => AllWorkersExited)
    /\ [](main_pc = "done" => printed = alert_list)
    /\ [](AllWorkersExited => Len(alert_list) = AlertsDue)
    /\ [][main_pc = "print" \/ main_pc = "done" => UNCHANGED alert_list]_vars
    /\ [][\/ alert_list' = alert_list
          \/ /\ Len(alert_list') = Len(alert_list) + 1
             /\ alert_list = SubSeq(alert_list', 1, Len(alert_list))]_vars

\* Main is about to read a sink that two workers were appending to.
C14_ReadyToDrain ==
    /\ main_pc = "print"
    /\ num_processes > 1
    /\ Len(alert_list) = 2

(* ---------------------------- baseline index --------------------------- *)
\* C15: only the loading step of main changes the baseline index; once the
\* load is over, and at every lookup of every worker, the index is what the
\* load made of the snapshot.
C15_BaselineWrittenByLoadOnly ==
    /\ [][np_array' # np_array => main_pc = "load" /\ main_pc' # "load"]_vars
    /\ [](main_pc \notin {"load", "failed"} =>
              np_array = LoadedArray(baseline_metadata, num_files))
    /\ [](\A w \in Procs :
              wpc[w] \in {"compare", "timestamp"} =>
                  np_array = LoadedArray(baseline_metadata, num_files))

\* A worker has looked a file up in a baseline of two records and found its
\* size and its timestamp changed.
C15_LookupDone ==
    \E w \in Procs :
        /\ wpc[w] = "timestamp"
        /\ Len(baseline_metadata) = 2
        /\ progress_counter = 1

(* ------------------------------- waiting ------------------------------- *)
\* queue.get() on an empty queue: the worker has no step until a put.
WorkerWaitBlocks ==
    \A w \in Procs :
        (wpc[w] = "get" /\ QueueEmpty(file_queue)) => ~ENABLED Worker(w)

\* C16: while the queue is at capacity the waiting producer has no step to
\* take, and a worker waiting for a path on an empty queue has none either:
\* neither of them polls.  Stated for the tree counted at startup.
C16_WaitsAreBlocking ==
    TreeAsCounted =>
        /\ (prod_pc = "wait" /\ QueueFull(file_queue, buffer_size))
               => ~ENABLED Producer
        /\ WorkerWaitBlocks

(* ----------------------------- missing files --------------------------- *)
\* Baseline record i has the fingerprint of no file the scan could read.
Unmatched(i) ==
    \A p \in DOMAIN tree :
        tree[p].state = "ok" => tree[p].meta.hash # baseline_metadata[i].hash

\* C17: at the end of a completed run over the tree counted at startup,
\* every baseline record matched by no live file has a Missing alert.
C17_MissingFilesReported ==
    (RunComplete /\ TreeAsCounted) =>
        \A i \in DOMAIN baseline_metadata :
            Unmatched(i) =>
                \E k \in DOMAIN printed :
                    printed[k][1] = "Missing" /\ printed[k][2] = i

(* --------------------------- completion signal ------------------------- *)
\* C18: when stop_event is set every path of the tree has been put (it is
\* in the queue or was taken from it) and the producer has ended, so that
\* it can neither set the event again nor put another path; no step clears
\* the event, and no step after the set lengthens the queue.
C18_SignalAfterLastPut ==
    /\ [](stop_event =>
              /\ prod_pc = "done"
              /\ \A p \in DOMAIN tree :
                     taken[p] >= 1 \/ p \in Range(file_queue)
              /\ ~ENABLED ProducerSet
              /\ ~ENABLED ProducerPut)
    /\ [][stop_event => stop_event']_vars
    /\ [][stop_event => Len(file_queue') <= Len(file_queue)]_vars

\* The event is set while paths of a tree of two files are still queued.
C18_SetWithPathsQueued ==
    /\ stop_event
    /\ Len(tree) = 2
    /\ file_queue # << >>

(* ----------------------------- progress loop --------------------------- *)
PastProgressLoop == main_pc \in {"join", "join_producer", "print", "done"}

\* Main is past its progress loop only when the counter has reached
\* num_files, and never with a tree shorter than num_files.
JoinOnlyAfterCount ==
    /\ PastProgressLoop => progress_counter >= num_files
    /\ Len(tree) < num_files => ~PastProgressLoop

\* C19: main is past its progress loop only when the counter has reached
\* num_files; with a tree shorter than num_files main never gets past it;
\* with a tree of at least num_files files main in the loop gets past it.
C19_JoinAfterCount ==
    /\ []JoinOnlyAfterCount
    /\ (main_pc = "progress" /\ Len(tree) >= num_files) ~> PastProgressLoop

(* ------------------------- size of the baseline index ------------------ *)
\* The alerts of a comparison with an all-zero row.
ZeroRowAlerts(p, m) ==
    (IF F64(m.size) # 0 THEN {<<"Size", p>>} ELSE {})
        \cup (IF F64(m.timestamp) # 0 THEN {<<"Timestamp", p>>} ELSE {})

\* C20: the baseline index has num_files rows.  After the load of a
\* parsable snapshot of more than num_files records main has failed with
\* nothing started and the array lock held by main; after the load of a
\* shorter one the rows past the snapshot are all zero, and a file of
\* fingerprint 0 is then compared with such a row as with a baseline
\* record: it is not new, and its size and timestamp are compared with 0.
C20_ArrayHasNumFilesRows ==
    /\ DOMAIN np_array = 1..num_files
    /\ (json_ok /\ main_pc # "load" /\ Len(baseline_metadata) > num_files)
           => /\ main_pc = "failed"
              /\ array_lock = "main"
              /\ NothingStarted
    /\ (json_ok /\ main_pc # "load" /\ Len(baseline_metadata) <= num_files)
           => /\ array_lock = "free"
              /\ \A i \in (Len(baseline_metadata) + 1)..num_files :
                     np_array[i] = NoMetadata
    /\ \A p \in DOMAIN tree :
           (/\ finished[p] >= 1
            /\ tree[p].state = "ok"
            /\ tree[p].meta.hash = 0
            /\ Len(baseline_metadata) < num_files)
               => Range(AlertsFor(p)) = ZeroRowAlerts(p, tree[p].meta)

\* A file of fingerprint 0 has been compared with the zero row that follows
\* the one record of the snapshot.
C20_ZeroRowMatched ==
    \E p \in DOMAIN tree :
        /\ finished[p] = 1
        /\ tree[p].state = "ok"
        /\ tree[p].meta.hash = 0
        /\ Len(baseline_metadata) = 1
        /\ num_files = 2
====
